---- MODULE Spec2Model ----
(***************************************************************************)
(* Model of streamlit_app.py: the Excel merger and analyzer.               *)
(*                                                                         *)
(* One script run of the Streamlit app is one step of the model: a user    *)
(* interaction (upload, checkbox toggle, download click) changes a widget  *)
(* value and the whole script runs again from top to bottom against the    *)
(* session state.                                                          *)
(*                                                                         *)
(* Text is a sequence of one-character strings, so that slicing, parsing   *)
(* and sorting are computed and not assumed.  The Greek column names of    *)
(* the source are transliterated to ASCII.                                 *)
(*                                                                         *)
(* What pandas does is modelled by its effect on the cells: read_excel     *)
(* turns an empty cell into NaN and a numeric column with a gap into       *)
(* floats, astype(str) writes NaN as "nan" and a float with its ".0",      *)
(* to_numeric parses digits and coerces the rest to NaN, a label that      *)
(* names two columns selects a DataFrame.  Periods and courses are text in *)
(* every sheet, as sorted() and the checkbox labels require.  The store    *)
(* behind @st.cache_data belongs to Streamlit: the model records the calls *)
(* the script makes to it (to_excel.clear() in run, to_excel(df) in view). *)
(***************************************************************************)
EXTENDS Integers, Sequences, FiniteSets, TLC

VARIABLES
    uploaded_files,   \* value of the st.file_uploader widget: a sequence of files
    combined_df,      \* st.session_state.combined_df  (<<>> is None, <<t>> holds t)
    processed_df,     \* st.session_state.processed_df (<<>> is None, <<t>> holds t)
    checked,          \* keys of the checkboxes that are ticked
    run,              \* what the processing block did in the last script run
    view,             \* what the display block rendered in the last script run
    download          \* bytes handed to the browser by the last download click

vars == <<uploaded_files, combined_df, processed_df, checked, run, view, download>>

----------------------------------------------------------------------------
(* Bounds of the model.                                                    *)

MaxFiles == 2        \* files in one upload
MaxRows == 2         \* data rows of a generated file (SpecAgg)

----------------------------------------------------------------------------
(* Column names, lines 44-66.                                              *)

ORIGINAL_PERIODOS == "Periodos dilosis"
ORIGINAL_TMIMA == "Tmima Taxis"
ORIGINAL_MITROO == "Arithmos Mitroou"
ORIGINAL_GRADE == "Vathmologia"

PERIODOS_COLUMN == "Periodos"
TMIMA_COLUMN == "Mathima"
MITROO_COLUMN == "Etos Engrafis"
GRADE_COLUMN == "Vathmologia"

FIXED_COLUMNS == <<PERIODOS_COLUMN, TMIMA_COLUMN, MITROO_COLUMN, GRADE_COLUMN>>

RENAME_DICT(col) ==
    CASE col = ORIGINAL_PERIODOS -> PERIODOS_COLUMN
      [] col = ORIGINAL_TMIMA -> TMIMA_COLUMN
      [] col = ORIGINAL_MITROO -> MITROO_COLUMN
      [] OTHER -> col

PrefixLen == 3       \* .str[:3]
PassMark == 5        \* x >= 5

----------------------------------------------------------------------------
(* Cells of a sheet.  A cell holds text, a whole number, a float with a    *)
(* whole value, or nothing (NaN once read by pandas).                      *)

None == <<>>
Some(x) == <<x>>

NaN == [t |-> "nan", n |-> 0, s |-> <<>>]
I(n) == [t |-> "int", n |-> n, s |-> <<>>]
F(n) == [t |-> "float", n |-> n, s |-> <<>>]
S(s) == [t |-> "str", n |-> 0, s |-> s]

Digit == <<"0", "1", "2", "3", "4", "5", "6", "7", "8", "9">>

Alphabet == <<".", "0", "1", "2", "3", "4", "5", "6", "7", "8", "9",
              "A", "B", "C", "P", "X", "a", "n">>

Ord(ch) == CHOOSE i \in 1..Len(Alphabet) : Alphabet[i] = ch

\* Python's str < str: lexicographic by code point.
RECURSIVE StrLess(_, _)
StrLess(a, b) ==
    IF b = <<>> THEN FALSE
    ELSE IF a = <<>> THEN TRUE
    ELSE IF Ord(Head(a)) # Ord(Head(b)) THEN Ord(Head(a)) < Ord(Head(b))
    ELSE StrLess(Tail(a), Tail(b))

\* str(n) for n >= 0.
RECURSIVE IntToStr(_)
IntToStr(n) ==
    IF n < 10 THEN <<Digit[n + 1]>>
    ELSE Append(IntToStr(n \div 10), Digit[(n % 10) + 1])

IsDigit(ch) == \E i \in 1..10 : Digit[i] = ch

DigitVal(ch) == (CHOOSE i \in 1..10 : Digit[i] = ch) - 1

\* int(s) for a string of digits.
RECURSIVE ParseDigits(_)
ParseDigits(s) ==
    IF s = <<>> THEN 0
    ELSE 10 * ParseDigits(SubSeq(s, 1, Len(s) - 1)) + DigitVal(s[Len(s)])

\* Series.astype(str), element by element.
AsStr(cell) ==
    CASE cell.t = "str" -> cell.s
      [] cell.t = "int" -> IntToStr(cell.n)
      [] cell.t = "float" -> IntToStr(cell.n) \o <<".", "0">>
      [] OTHER -> <<"n", "a", "n">>

\* Series.str[:3]
Truncate(s) == SubSeq(s, 1, IF Len(s) < PrefixLen THEN Len(s) ELSE PrefixLen)

\* pd.to_numeric(errors='coerce'), element by element: a number, or NaN.
ToNumeric(cell) ==
    CASE cell.t \in {"int", "float"} -> F(cell.n)
      [] cell.t = "str" /\ cell.s # <<>> /\ (\A i \in 1..Len(cell.s) : IsDigit(cell.s[i]))
            -> F(ParseDigits(cell.s))
      [] OTHER -> NaN

----------------------------------------------------------------------------
(* pandas tables.  A DataFrame is its column labels and its rows, each row *)
(* a tuple of cells aligned with the labels.                               *)

DataFrame(columns, rows) == [columns |-> columns, rows |-> rows]

Range(seq) == {seq[i] : i \in 1..Len(seq)}

RECURSIVE Flatten(_)
Flatten(seqs) ==
    IF seqs = <<>> THEN <<>> ELSE Head(seqs) \o Flatten(Tail(seqs))

\* df[name]: the positions of the columns labelled name, in order.
RECURSIVE PositionsOf(_, _, _)
PositionsOf(columns, name, j) ==
    IF j > Len(columns) THEN <<>>
    ELSE (IF columns[j] = name THEN <<j>> ELSE <<>>) \o PositionsOf(columns, name, j + 1)

ColumnsNamed(df, name) == PositionsOf(df.columns, name, 1)

\* dtype inference: a column without text that holds a NaN or a float is
\* float64, and its whole numbers are floats.
IsFloatColumn(rows, j) ==
    /\ \A i \in 1..Len(rows) : rows[i][j].t # "str"
    /\ \E i \in 1..Len(rows) : rows[i][j].t \in {"nan", "float"}

InferDtypes(df) ==
    DataFrame(df.columns,
        [i \in 1..Len(df.rows) |->
            [j \in 1..Len(df.columns) |->
                IF df.rows[i][j].t = "int" /\ IsFloatColumn(df.rows, j)
                THEN F(df.rows[i][j].n) ELSE df.rows[i][j]]])

\* pd.read_excel(file, header=0, skiprows=1): the first row of the sheet is
\* skipped, the next one is the header, the rest is data.
ReadExcel(file) ==
    LET kept == SubSeq(file.sheet, 2, Len(file.sheet))
    IN IF kept = <<>> THEN DataFrame(<<>>, <<>>)
       ELSE InferDtypes(DataFrame(Head(kept), Tail(kept)))

\* The labels of the frames in order of first appearance.
RECURSIVE UnionColumns(_, _)
UnionColumns(cols, acc) ==
    IF cols = <<>> THEN acc
    ELSE UnionColumns(Tail(cols),
            IF Head(cols) \in Range(acc) THEN acc ELSE Append(acc, Head(cols)))

\* The rows of df laid out under the labels columns, NaN where df has none.
Reindex(df, columns) ==
    [i \in 1..Len(df.rows) |->
        [j \in 1..Len(columns) |->
            IF columns[j] \in Range(df.columns)
            THEN df.rows[i][CHOOSE k \in 1..Len(df.columns) : df.columns[k] = columns[j]]
            ELSE NaN]]

RECURSIVE Reverse(_)
Reverse(seq) ==
    IF seq = <<>> THEN <<>> ELSE Append(Reverse(Tail(seq)), Head(seq))

\* A concatenation that takes the frames last to first.
Concat_Reversed(dataframes) ==
    LET frames == Reverse(dataframes)
        columns == UnionColumns(Flatten([k \in 1..Len(frames) |-> frames[k].columns]), <<>>)
    IN InferDtypes(DataFrame(columns,
            Flatten([k \in 1..Len(frames) |-> Reindex(frames[k], columns)])))

\* pd.concat(dataframes, ignore_index=True)
Concat(dataframes) ==
    LET columns == UnionColumns(Flatten([k \in 1..Len(dataframes) |-> dataframes[k].columns]), <<>>)
    IN InferDtypes(DataFrame(columns,
            Flatten([k \in 1..Len(dataframes) |-> Reindex(dataframes[k], columns)])))

\* df.rename(columns=RENAME_DICT)
Rename(df) ==
    DataFrame([j \in 1..Len(df.columns) |-> RENAME_DICT(df.columns[j])], df.rows)

\* df[names]: every column carrying one of the labels, in the order of names.
SelectColumns(df, names) ==
    LET pos == Flatten([k \in 1..Len(names) |-> ColumnsNamed(df, names[k])])
    IN DataFrame([j \in 1..Len(pos) |-> df.columns[pos[j]]],
                 [i \in 1..Len(df.rows) |-> [j \in 1..Len(pos) |-> df.rows[i][pos[j]]]])

\* .astype(str).str[:3] on one cell.
TruncateCell(cell) == S(Truncate(AsStr(cell)))

\* df[MITROO_COLUMN] = df[MITROO_COLUMN].astype(str).str[:3], line 161, for a
\* label that names one column.
TruncateColumn(df) ==
    LET p == ColumnsNamed(df, MITROO_COLUMN)[1]
    IN DataFrame(df.columns,
        [i \in 1..Len(df.rows) |->
            [j \in 1..Len(df.columns) |->
                IF j = p THEN TruncateCell(df.rows[i][j]) ELSE df.rows[i][j]]])

\* df[GRADE_COLUMN] = pd.to_numeric(df[GRADE_COLUMN], errors='coerce'), line
\* 164, for a label that names one column.
CoerceColumn(df) ==
    LET p == ColumnsNamed(df, GRADE_COLUMN)[1]
    IN DataFrame(df.columns,
        [i \in 1..Len(df.rows) |->
            [j \in 1..Len(df.columns) |->
                IF j = p THEN ToNumeric(df.rows[i][j]) ELSE df.rows[i][j]]])

----------------------------------------------------------------------------
(* The processing block, lines 87-192.                                     *)

required_original_cols ==
    <<ORIGINAL_PERIODOS, ORIGINAL_TMIMA, ORIGINAL_MITROO, ORIGINAL_GRADE>>

\* all(col in df.columns for col in required_original_cols), line 118
HasRequiredColumns(df) ==
    \A k \in 1..Len(required_original_cols) :
        required_original_cols[k] \in Range(df.columns)

\* The for loop of lines 107-132 from file i on.  acc carries the list
\* dataframes, the flag error_occurred, the message shown for each file and the
\* last value given to the progress bar.  A file that cannot be read raises
\* inside the inner try; the except sets the flag and the loop goes on.  The
\* continue of line 120 skips the progress update.
RECURSIVE ReadLoop(_, _, _)
ReadLoop(files, i, acc) ==
    IF i > Len(files) THEN acc
    ELSE IF files[i].corrupt
    THEN ReadLoop(files, i + 1,
            [acc EXCEPT !.error_occurred = TRUE,
                        !.outcomes = Append(@, "error"),
                        !.progress = i])
    ELSE LET df == ReadExcel(files[i])
         IN IF ~HasRequiredColumns(df)
            THEN ReadLoop(files, i + 1,
                    [acc EXCEPT !.outcomes = Append(@, "skipped")])
            ELSE IF df.rows # <<>>
            THEN ReadLoop(files, i + 1,
                    [acc EXCEPT !.dataframes = Append(@, df),
                                !.outcomes = Append(@, "read"),
                                !.progress = i])
            ELSE ReadLoop(files, i + 1,
                    [acc EXCEPT !.outcomes = Append(@, "empty"),
                                !.progress = i])

\* The guard of line 135 without its second half: a merge despite a failed read.
MergeGuard_IgnoresErrors(dataframes, error_occurred) ==
    dataframes # <<>>

\* if dataframes and not error_occurred, line 135
MergeGuard(dataframes, error_occurred) ==
    dataframes # <<>> /\ ~error_occurred

\* missing_cols, line 149
MissingCols(df) ==
    LET Absent(k) == IF FIXED_COLUMNS[k] \in Range(df.columns)
                     THEN <<>> ELSE <<FIXED_COLUMNS[k]>>
    IN Flatten([k \in 1..Len(FIXED_COLUMNS) |-> Absent(k)])

\* Lines 158-164 raise when a label names more than one column:
\* df[MITROO_COLUMN] is then a DataFrame, which has no .str accessor, and
\* pd.to_numeric refuses a DataFrame.
TransformRaises(df) ==
    LET selected == SelectColumns(df, FIXED_COLUMNS)
    IN \/ Len(ColumnsNamed(selected, MITROO_COLUMN)) # 1
       \/ Len(ColumnsNamed(selected, GRADE_COLUMN)) # 1

\* Lines 158-164: select the fixed columns, truncate, coerce.
Transform(df) ==
    CoerceColumn(TruncateColumn(SelectColumns(df, FIXED_COLUMNS)))

\* An outer except that forgets to clear combined_df.
OuterExcept_KeepsCombined(session) ==
    [session EXCEPT !.processed_df = None]

\* The outer except of lines 184-192.
OuterExcept(session) ==
    [session EXCEPT !.combined_df = None, !.processed_df = None]

NoRun ==
    [ran |-> FALSE, cache_cleared |-> FALSE, outcomes |-> <<>>, progress |-> 0,
     error_occurred |-> FALSE, merged |-> None,
     branch |-> "not run"]

\* Lines 134-178, once the loop is over.  combined_df holds the very object
\* that line 143 renames in place, so the session sees the renamed labels.
AfterMerge(loop, combined_df_temp, renamed) ==
    LET stored == [combined_df |-> Some(renamed), processed_df |-> None]
        Result(session, failed, branch) ==
            [combined_df |-> session.combined_df,
             processed_df |-> session.processed_df,
             run |-> [ran |-> TRUE, cache_cleared |-> TRUE, outcomes |-> loop.outcomes,
                      progress |-> loop.progress, error_occurred |-> failed,
                      merged |-> Some(combined_df_temp),
                      branch |-> branch]]
    IN IF MissingCols(renamed) # <<>>
       THEN Result([stored EXCEPT !.processed_df = None], TRUE, "missing columns")
       ELSE IF TransformRaises(renamed)
       THEN Result(OuterExcept(stored), TRUE, "unexpected error")
       ELSE Result([stored EXCEPT !.processed_df = Some(Transform(renamed))],
                   FALSE, "ready")

AfterLoop(loop) ==
    LET cleared == [combined_df |-> None, processed_df |-> None]
        Result(session, branch) ==
            [combined_df |-> session.combined_df,
             processed_df |-> session.processed_df,
             run |-> [ran |-> TRUE, cache_cleared |-> TRUE, outcomes |-> loop.outcomes,
                      progress |-> loop.progress,
                      error_occurred |-> loop.error_occurred,
                      merged |-> None,
                      branch |-> branch]]
    IN IF MergeGuard(loop.dataframes, loop.error_occurred)
       THEN AfterMerge(loop, Concat(loop.dataframes), Rename(Concat(loop.dataframes)))
       ELSE IF loop.dataframes = <<>> /\ ~loop.error_occurred
       THEN Result([cleared EXCEPT !.combined_df = None, !.processed_df = None],
                   "no data")
       ELSE Result([cleared EXCEPT !.processed_df = None], "stopped")

\* Lines 91-192 on the uploaded files: the session state they leave and the
\* record of what happened.  Lines 92-94 clear the session state and the
\* cache of to_excel before the loop starts.
ProcessingBlock(files) ==
    AfterLoop(ReadLoop(files, 1,
                [dataframes |-> <<>>, error_occurred |-> FALSE,
                 outcomes |-> <<>>, progress |-> 0]))

----------------------------------------------------------------------------
(* The display block, lines 195-318.                                       *)

\* df[name] as a list of cells.
Column(df, name) ==
    LET p == ColumnsNamed(df, name)[1]
    IN [i \in 1..Len(df.rows) |-> df.rows[i][p]]

\* Series.unique().tolist(): the distinct values in order of first appearance.
RECURSIVE Unique(_, _)
Unique(cells, acc) ==
    IF cells = <<>> THEN acc
    ELSE Unique(Tail(cells),
            IF Head(cells) \in Range(acc) THEN acc ELSE Append(acc, Head(cells)))

\* sorted() of a list of text cells, by insertion.
RECURSIVE Insert(_, _)
Insert(cell, sorted) ==
    IF sorted = <<>> THEN <<cell>>
    ELSE IF StrLess(cell.s, Head(sorted).s) THEN <<cell>> \o sorted
    ELSE <<Head(sorted)>> \o Insert(cell, Tail(sorted))

RECURSIVE Sorted(_)
Sorted(cells) ==
    IF cells = <<>> THEN <<>> ELSE Insert(Head(cells), Sorted(Tail(cells)))

\* The rows of a list that satisfy a test, in order.
RECURSIVE RowsWhere(_, _, _, _)
RowsWhere(rows, p, values, i) ==
    IF i > Len(rows) THEN <<>>
    ELSE (IF rows[i][p] \in values THEN <<rows[i]>> ELSE <<>>)
         \o RowsWhere(rows, p, values, i + 1)

\* A filter that matches the first selected value only.
Isin_FirstOnly(df, name, selected) ==
    DataFrame(df.columns,
              RowsWhere(df.rows, ColumnsNamed(df, name)[1],
                        IF selected = <<>> THEN {} ELSE {selected[1]}, 1))

\* df[df[name].isin(selected)], lines 229 and 287
Isin(df, name, selected) ==
    DataFrame(df.columns,
              RowsWhere(df.rows, ColumnsNamed(df, name)[1], Range(selected), 1))

\* 'size': the rows of the group.
RECURSIVE AggSize(_)
AggSize(grades) ==
    IF grades = <<>> THEN 0 ELSE 1 + AggSize(Tail(grades))

\* 'count': the grades of the group that are not NaN.
RECURSIVE AggCount(_)
AggCount(grades) ==
    IF grades = <<>> THEN 0
    ELSE (IF Head(grades).t # "nan" THEN 1 ELSE 0) + AggCount(Tail(grades))

\* A pass count written as "not below the mark": it takes NaN for a pass.
RECURSIVE AggPassed_NotBelow(_)
AggPassed_NotBelow(grades) ==
    IF grades = <<>> THEN 0
    ELSE (IF Head(grades).t = "nan" \/ Head(grades).n >= PassMark THEN 1 ELSE 0)
         + AggPassed_NotBelow(Tail(grades))

\* A pass count that leaves the mark itself out.
RECURSIVE AggPassed_Strict(_)
AggPassed_Strict(grades) ==
    IF grades = <<>> THEN 0
    ELSE (IF Head(grades).t # "nan" /\ Head(grades).n > PassMark THEN 1 ELSE 0)
         + AggPassed_Strict(Tail(grades))

\* lambda x: (x >= 5).sum(); a comparison with NaN is False.
RECURSIVE AggPassed(_)
AggPassed(grades) ==
    IF grades = <<>> THEN 0
    ELSE (IF Head(grades).t # "nan" /\ Head(grades).n >= PassMark THEN 1 ELSE 0)
         + AggPassed(Tail(grades))

Enrolled == "Engegrammenoi"
Participated == "Symmeteichan"
Passed == "Epitychontes"

\* The keys of a groupby: the distinct values that are not NaN, ascending.
GroupKeys(cells) ==
    LET all == Unique(cells, <<>>)
        Present(k) == IF all[k].t = "nan" THEN <<>> ELSE <<all[k]>>
    IN Sorted(Flatten([k \in 1..Len(all) |-> Present(k)]))

\* One row of a summary: the key and the three counts over its grades.
SummaryRow(key_cell, grades) ==
    <<key_cell, I(AggSize(grades)), I(AggCount(grades)), I(AggPassed(grades))>>

Summarise(df, key, keys) ==
    DataFrame(<<key, Enrolled, Participated, Passed>>,
        [k \in 1..Len(keys) |->
            SummaryRow(keys[k], Column(Isin(df, key, <<keys[k]>>), GRADE_COLUMN))])

\* df.groupby(key).agg(**aggregation_logic).reset_index(), lines 235-241 and
\* 291: one row per key that is not NaN, the keys in ascending order.
GroupByAgg(df, key) == Summarise(df, key, GroupKeys(Column(df, key)))

\* to_excel, lines 13-28: one sheet, the labels, the rows, no index.
to_excel(df) ==
    [sheet_name |-> "Sheet1", header |-> df.columns, data |-> df.rows]

\* The key of a checkbox, lines 220 and 273.
CheckboxKey(prefix, cell) == <<prefix, cell.s>>

\* A selection read from every ticked key, rendered in this run or not.
Selected_EveryTickedKey(prefix, options, ticked) ==
    LET known == <<S(<<"A">>), S(<<"B">>), S(<<"P", "1">>), S(<<"P", "2">>)>>
        Pick(k) == IF CheckboxKey(prefix, known[k]) \in ticked
                   THEN <<known[k]>> ELSE <<>>
    IN Flatten([k \in 1..Len(known) |-> Pick(k)])

\* The options whose checkbox is ticked, in the order of the options.
Selected(prefix, options, ticked) ==
    LET Pick(k) == IF CheckboxKey(prefix, options[k]) \in ticked
                   THEN <<options[k]>> ELSE <<>>
    IN Flatten([k \in 1..Len(options) |-> Pick(k)])

\* periodos_options, line 205
PeriodosOptions(df) == Sorted(Unique(Column(df, PERIODOS_COLUMN), <<>>))

\* tmima_options, line 258: from the rows filtered by period.
TmimaOptions(df_filtered_by_periodos) ==
    Sorted(Unique(Column(df_filtered_by_periodos, TMIMA_COLUMN), <<>>))

\* A level 1 that does not wait for a period to be ticked.
Level1Guard_Always(selected_periodoi) == TRUE

\* if selected_periodoi, line 227
Level1Guard(selected_periodoi) == selected_periodoi # <<>>

\* if selected_tmimata, line 280
Level2Guard(selected_tmimata) == selected_tmimata # <<>>

Hidden ==
    [preview |-> FALSE, warning |-> FALSE,
     periodos_options |-> <<>>, selected_periodoi |-> <<>>, step1 |-> "hidden",
     tmima_agg |-> None, tmima_options |-> <<>>, selected_tmimata |-> <<>>,
     step2 |-> "hidden", mitroo_agg |-> None,
     tmima_excel_data |-> None, mitroo_excel_data |-> None]

\* Lines 280-308, given the rows filtered by period and by course.
Level2Summary(v, df_filtered_by_both, mitroo_agg_filtered) ==
    IF Level2Guard(v.selected_tmimata)
    THEN IF df_filtered_by_both.rows # <<>>
         THEN [v EXCEPT !.step2 = "summary",
                        !.mitroo_agg = Some(mitroo_agg_filtered),
                        !.mitroo_excel_data = Some(to_excel(mitroo_agg_filtered))]
         ELSE [v EXCEPT !.step2 = "no data"]
    ELSE [v EXCEPT !.step2 = "awaiting"]

Level2Selected(v, df_filtered_by_periodos, tmima_options, selected_tmimata) ==
    Level2Summary([v EXCEPT !.tmima_options = tmima_options,
                            !.selected_tmimata = selected_tmimata],
        Isin(df_filtered_by_periodos, TMIMA_COLUMN, selected_tmimata),
        GroupByAgg(Isin(df_filtered_by_periodos, TMIMA_COLUMN, selected_tmimata),
                   MITROO_COLUMN))

\* Lines 255-308, given the rows filtered by period.
Level2(v, df_filtered_by_periodos, tmima_options, ticked) ==
    Level2Selected(v, df_filtered_by_periodos, tmima_options,
                   Selected("tmima_cb", tmima_options, ticked))

\* Lines 227-313, given the periods that are ticked.
Level1Summary(v, df_filtered_by_periodos, tmima_agg, ticked) ==
    IF Level1Guard(v.selected_periodoi)
    THEN IF df_filtered_by_periodos.rows # <<>>
         THEN Level2([v EXCEPT !.step1 = "summary",
                               !.tmima_agg = Some(tmima_agg),
                               !.tmima_excel_data = Some(to_excel(tmima_agg))],
                     df_filtered_by_periodos,
                     TmimaOptions(df_filtered_by_periodos), ticked)
         ELSE [v EXCEPT !.step1 = "no data"]
    ELSE [v EXCEPT !.step1 = "awaiting"]

Level1Selected(df, periodos_options, selected_periodoi, ticked) ==
    Level1Summary([Hidden EXCEPT !.preview = TRUE,
                                 !.periodos_options = periodos_options,
                                 !.selected_periodoi = selected_periodoi],
        Isin(df, PERIODOS_COLUMN, selected_periodoi),
        GroupByAgg(Isin(df, PERIODOS_COLUMN, selected_periodoi), TMIMA_COLUMN),
        ticked)

\* Lines 197-313, given the table held by the session.
Level1Options(df, periodos_options, ticked) ==
    Level1Selected(df, periodos_options,
                   Selected("periodos_cb", periodos_options, ticked), ticked)

Level1(df, ticked) == Level1Options(df, PeriodosOptions(df), ticked)

\* Lines 195-318.
DisplayBlock(session_processed_df, files, ticked) ==
    IF session_processed_df # None
    THEN Level1(session_processed_df[1], ticked)
    ELSE IF files # <<>>
    THEN [Hidden EXCEPT !.warning = TRUE]
    ELSE Hidden

----------------------------------------------------------------------------
(* One script run, lines 69-322.                                           *)

\* if uploaded_files and st.session_state.processed_df is None, line 90
ProcessingGuard(files, session_processed_df) ==
    files # <<>> /\ session_processed_df = None

\* The script from top to bottom, against the session state it finds.
ScriptResult(files, ticked, session) ==
    LET reprocess == ProcessingGuard(files, session.processed_df)
        proc == ProcessingBlock(files)
        after == IF reprocess
                 THEN [combined_df |-> proc.combined_df, processed_df |-> proc.processed_df]
                 ELSE session
        v == DisplayBlock(after.processed_df, files, ticked)
    IN [combined_df |-> after.combined_df,
        processed_df |-> after.processed_df,
        run |-> IF reprocess THEN proc.run ELSE NoRun,
        view |-> v]

ScriptRun(files, ticked) ==
    \E r \in {ScriptResult(files, ticked,
                   [combined_df |-> combined_df, processed_df |-> processed_df])} :
        /\ combined_df' = r.combined_df
        /\ processed_df' = r.processed_df
        /\ run' = r.run
        /\ view' = r.view

----------------------------------------------------------------------------
(* The files a user may upload.  Periods and courses are text, as the      *)
(* checkbox labels of lines 221 and 274 require.                           *)

P1 == S(<<"P", "1">>)
P2 == S(<<"P", "2">>)
CourseA == S(<<"A">>)
CourseB == S(<<"B">>)

TitleRow == <<S(<<"X">>)>>

Sheet(header, data) == <<TitleRow, header>> \o data

\* Two rows, an extra column, a registry number kept as text, a grade "X".
FileMixed ==
    [name |-> "mixed.xlsx", corrupt |-> FALSE,
     sheet |-> Sheet(<<ORIGINAL_PERIODOS, ORIGINAL_TMIMA, "Onoma", ORIGINAL_MITROO, ORIGINAL_GRADE>>,
                     << <<P1, CourseA, S(<<"C">>), I(2023), I(7)>>,
                        <<P2, CourseB, S(<<"C">>), S(<<"2", "0">>), S(<<"X">>)>> >>)]

\* Two rows, an empty registry number next to a short one, an empty grade.
FileGaps ==
    [name |-> "gaps.xlsx", corrupt |-> FALSE,
     sheet |-> Sheet(required_original_cols,
                     << <<P1, CourseB, NaN, I(5)>>,
                        <<P1, CourseA, I(12), NaN>> >>)]

\* No grade column.
FileNoGrade ==
    [name |-> "nograde.xlsx", corrupt |-> FALSE,
     sheet |-> Sheet(<<ORIGINAL_PERIODOS, ORIGINAL_TMIMA, ORIGINAL_MITROO>>,
                     << <<P2, CourseA, I(2021)>> >>)]

\* The header and nothing below it.
FileEmpty ==
    [name |-> "empty.xlsx", corrupt |-> FALSE,
     sheet |-> Sheet(required_original_cols, <<>>)]

\* Not a workbook: pd.read_excel raises.
FileCorrupt ==
    [name |-> "corrupt.xlsx", corrupt |-> TRUE, sheet |-> <<>>]

\* A column that already carries the new name of the registry number.
FileClash ==
    [name |-> "clash.xlsx", corrupt |-> FALSE,
     sheet |-> Sheet(<<ORIGINAL_PERIODOS, ORIGINAL_TMIMA, ORIGINAL_MITROO, ORIGINAL_GRADE, MITROO_COLUMN>>,
                     << <<P2, CourseA, I(2022), S(<<"6">>), S(<<"2", "0", "2">>)>> >>)]

Catalogue == {FileMixed, FileGaps, FileNoGrade, FileEmpty, FileCorrupt, FileClash}

Batches == UNION {[1..n -> Catalogue] : n \in 0..MaxFiles}

\* The files of the sessions that go on to tick checkboxes.
SessionCatalogue == {FileMixed, FileGaps}

SessionBatches == UNION {[1..n -> SessionCatalogue] : n \in 0..MaxFiles}

----------------------------------------------------------------------------
(* The session.                                                            *)

Init ==
    /\ uploaded_files = <<>>
    /\ combined_df = None
    /\ processed_df = None
    /\ checked = {}
    /\ run = NoRun
    /\ view = Hidden
    /\ download = None

\* The user changes the set of files in the uploader.
Upload(files) ==
    /\ files # uploaded_files
    /\ uploaded_files' = files
    /\ checked' = checked
    /\ download' = None
    /\ ScriptRun(files, checked)

\* The checkboxes the last run rendered.
RenderedKeys ==
    {CheckboxKey("periodos_cb", view.periodos_options[k]) : k \in 1..Len(view.periodos_options)}
    \cup {CheckboxKey("tmima_cb", view.tmima_options[k]) : k \in 1..Len(view.tmima_options)}

\* The user ticks or unticks a checkbox on the page.  A ticked key stays in
\* checked while its checkbox is not rendered; the script reads only the keys
\* of the checkboxes it renders.
Toggle(key) ==
    /\ key \in RenderedKeys
    /\ checked' = IF key \in checked THEN checked \ {key} ELSE checked \cup {key}
    /\ uploaded_files' = uploaded_files
    /\ download' = None
    /\ ScriptRun(uploaded_files, checked')

\* The user clicks a download button: the browser gets the bytes the button
\* was rendered with, and the script runs again.
Download(level) ==
    /\ \/ level = 1 /\ view.tmima_excel_data # None
          /\ download' = view.tmima_excel_data
       \/ level = 2 /\ view.mitroo_excel_data # None
          /\ download' = view.mitroo_excel_data
    /\ uploaded_files' = uploaded_files
    /\ checked' = checked
    /\ ScriptRun(uploaded_files, checked)

AllKeys ==
    {CheckboxKey(pre, c) : pre \in {"periodos_cb", "tmima_cb"}, c \in {P1, P2, CourseA, CourseB}}

Next ==
    \/ \E files \in SessionBatches : Upload(files)
    \/ \E key \in AllKeys : Toggle(key)
    \/ \E level \in {1, 2} : Download(level)

Spec == Init /\ [][Next]_vars

\* Sessions that only upload, over every file of the catalogue.
NextIngest == \E files \in Batches : Upload(files)

SpecIngest == Init /\ [][NextIngest]_vars

----------------------------------------------------------------------------
(* A session that starts from one generated workbook: every sheet of at     *)
(* most MaxRows data rows over a small set of cells.  Three of the four     *)
(* pairs of period and course are enough: a sheet of up to three rows uses  *)
(* at most three pairs, and swapping the names of the periods or of the     *)
(* courses turns any such choice into one made of these three.              *)

GeneratedRow ==
    {<<pc[1], pc[2], m, g>> :
        pc \in {<<P1, CourseA>>, <<P1, CourseB>>, <<P2, CourseB>>},
        m \in {I(2023), S(<<"1", "9">>)},
        g \in {I(4), I(5), S(<<"X">>)}}

GeneratedFiles ==
    {[name |-> "generated.xlsx", corrupt |-> FALSE,
      sheet |-> Sheet(required_original_cols, data)] :
        data \in UNION {[1..n -> GeneratedRow] : n \in 0..MaxRows}}

InitAgg ==
    \E f \in GeneratedFiles :
        \E r \in {ScriptResult(<<f>>, {}, [combined_df |-> None, processed_df |-> None])} :
            /\ uploaded_files = <<f>>
            /\ combined_df = r.combined_df
            /\ processed_df = r.processed_df
            /\ checked = {}
            /\ run = r.run
            /\ view = r.view
            /\ download = None

NextAgg == \E key \in AllKeys : Toggle(key)

SpecAgg == InitAgg /\ [][NextAgg]_vars

----------------------------------------------------------------------------
(* Vocabulary of the properties.  The canonical table has its four columns *)
(* in the order of FIXED_COLUMNS: period, course, year prefix, grade.      *)

Ready == processed_df # None

Rows == processed_df[1].rows

RowIds == 1..Len(Rows)

PeriodTicked(i) == <<"periodos_cb", Rows[i][1].s>> \in checked

CourseTicked(i) == <<"tmima_cb", Rows[i][2].s>> \in checked

HasGrade(i) == Rows[i][4].t # "nan"

SummaryRows(summary) ==
    IF summary = None THEN {}
    ELSE {summary[1].rows[k] : k \in 1..Len(summary[1].rows)}

\* The sheet of an uploaded file once its first row is dropped: the header
\* and the data rows.
HeaderOf(file) == IF Len(file.sheet) >= 2 THEN file.sheet[2] ELSE <<>>

DataOf(file) == SubSeq(file.sheet, 3, Len(file.sheet))

AnyCorrupt == \E i \in 1..Len(uploaded_files) : uploaded_files[i].corrupt

\* A file the merge accepts: the four original columns and at least one row.
Acceptable(file) ==
    /\ {ORIGINAL_PERIODOS, ORIGINAL_TMIMA, ORIGINAL_MITROO, ORIGINAL_GRADE}
            \subseteq Range(HeaderOf(file))
    /\ DataOf(file) # <<>>

\* The pairs <<file, row>> of the accepted files in upload order.
RECURSIVE AcceptedRows(_)
AcceptedRows(i) ==
    IF i > Len(uploaded_files) THEN <<>>
    ELSE (IF Acceptable(uploaded_files[i])
          THEN [k \in 1..Len(DataOf(uploaded_files[i])) |-> <<i, k>>]
          ELSE <<>>) \o AcceptedRows(i + 1)

PositionIn(columns, name) == CHOOSE j \in 1..Len(columns) : columns[j] = name

\* Two cells hold the same value; a whole number may have become a float.
SameValue(a, b) ==
    \/ a = b
    \/ a.t \in {"int", "float"} /\ b.t \in {"int", "float"} /\ a.n = b.n

\* The text of a source cell as the sheet shows it; an empty cell has none.
SourceText(cell) ==
    CASE cell.t = "str" -> cell.s
      [] cell.t \in {"int", "float"} -> IntToStr(cell.n)
      [] OTHER -> <<>>

IsNumericText(s) == s # <<>> /\ \A i \in 1..Len(s) : IsDigit(s[i])

----------------------------------------------------------------------------
(* C1.  From Ready, changing the set of uploaded files makes the script     *)
(* ingest the new set: the cache of to_excel is cleared and the session     *)
(* holds what the new files yield, not the table it held before.            *)
C1_ReuploadResets ==
    [][(Ready /\ uploaded_files' # uploaded_files)
        => /\ run'.ran
           /\ run'.cache_cleared
           /\ processed_df' = ProcessingBlock(uploaded_files').processed_df]_vars

(* C2.  When an ingestion run meets a file that cannot be read, nothing is  *)
(* merged and the session holds no combined and no canonical table,         *)
(* whatever the position of the file and the other files of the batch; and  *)
(* every file of the batch was still visited.                               *)
C2_ReadErrorFailsBatch ==
    (run.ran /\ AnyCorrupt)
        => /\ run.merged = None
           /\ combined_df = None
           /\ processed_df = None
           /\ run.error_occurred
           /\ Len(run.outcomes) = Len(uploaded_files)
           /\ \A i \in 1..Len(uploaded_files) :
                (run.outcomes[i] = "error") <=> uploaded_files[i].corrupt

C2_Witness ==
    /\ run.ran
    /\ Len(uploaded_files) >= 2
    /\ uploaded_files[1].corrupt
    /\ run.outcomes[2] = "read"
    /\ processed_df = None

(* C3.  When no file of the batch fails to read, the merge yields exactly   *)
(* the rows of the accepted files (the four original columns, at least one  *)
(* row after the first is dropped) in upload order and in each file's row   *)
(* order; skipped and empty files add nothing and stop nothing; with no     *)
(* accepted file there is no merge.  A session that reaches Ready holds     *)
(* these rows as its combined table.                                        *)
C3_MergeIsConcatenation ==
    (run.ran /\ ~AnyCorrupt)
        => LET src == AcceptedRows(1)
           IN IF src = <<>> THEN run.merged = None /\ combined_df = None
              ELSE /\ run.merged # None
                   /\ Len(run.merged[1].rows) = Len(src)
                   /\ \A j \in 1..Len(src) :
                        \A c \in Range(required_original_cols) :
                            SameValue(
                                run.merged[1].rows[j][PositionIn(run.merged[1].columns, c)],
                                DataOf(uploaded_files[src[j][1]])[src[j][2]]
                                    [PositionIn(HeaderOf(uploaded_files[src[j][1]]), c)])
                   /\ Ready => combined_df # None /\ combined_df[1].rows = run.merged[1].rows

C3_Witness ==
    /\ run.ran
    /\ ~AnyCorrupt
    /\ \E i, j \in 1..Len(run.outcomes) :
            run.outcomes[i] = "skipped" /\ run.outcomes[j] = "read"
    /\ run.merged # None
    /\ Ready

(* C4.  An ingestion run that does not end in Ready leaves the session      *)
(* without a combined table and without a canonical table.                  *)
C4_AbortClearsState ==
    (run.ran /\ (run.branch # "ready" \/ processed_df = None))
        => combined_df = None /\ processed_df = None

C4_Witness ==
    /\ run.ran
    /\ run.branch = "unexpected error"
    /\ run.merged # None
    /\ combined_df = None
    /\ processed_df = None

(* C9.  In every row of the canonical table the year prefix is the first    *)
(* three characters of the text of the source value: a shorter text is kept *)
(* whole and an empty source value gives the empty text.                    *)
C9_PrefixOfSourceText ==
    Ready =>
        \A i \in RowIds :
            LET src == SourceText(
                    combined_df[1].rows[i][PositionIn(combined_df[1].columns, MITROO_COLUMN)])
            IN Rows[i][3] = S(IF Len(src) <= 3 THEN src ELSE SubSeq(src, 1, 3))


(* C5.  In Ready, with no period ticked the page awaits a selection: no     *)
(* summary, no export and no warning at level 1, nothing at level 2.  With  *)
(* periods ticked and no course of the filtered rows ticked, level 2 awaits *)
(* a selection and has no summary and no export.  A summary exists at a     *)
(* level only when something is ticked at that level.                       *)
C5_EmptySelectionAwaits ==
    Ready =>
        LET somePeriod == \E i \in RowIds : PeriodTicked(i)
            someCourse == \E i \in RowIds : PeriodTicked(i) /\ CourseTicked(i)
        IN /\ ~view.warning
           /\ ~somePeriod =>
                /\ view.step1 = "awaiting"
                /\ view.tmima_agg = None /\ view.tmima_excel_data = None
                /\ view.step2 = "hidden"
                /\ view.mitroo_agg = None /\ view.mitroo_excel_data = None
           /\ (somePeriod /\ ~someCourse) =>
                /\ view.step2 = "awaiting"
                /\ view.mitroo_agg = None /\ view.mitroo_excel_data = None
           /\ view.tmima_agg # None => somePeriod
           /\ view.mitroo_agg # None => someCourse

C5_Witness ==
    /\ Ready
    /\ checked # {}
    /\ \A i \in RowIds : ~PeriodTicked(i)
    /\ view.step1 = "awaiting"

(* C10.  In Ready the selected periods are the ticked periods of the        *)
(* canonical table and the selected courses are the ticked courses of the   *)
(* rows of the selected periods, so a course ticked earlier whose periods   *)
(* are no longer ticked is not selected; neither level ever reports that    *)
(* the selection has no data.                                               *)
C10_SelectionsWithinOptions ==
    Ready =>
        /\ Range(view.selected_periodoi) = {Rows[i][1] : i \in {j \in RowIds : PeriodTicked(j)}}
        /\ Range(view.selected_tmimata) =
                {Rows[i][2] : i \in {j \in RowIds : PeriodTicked(j) /\ CourseTicked(j)}}
        /\ view.step1 # "no data"
        /\ view.step2 # "no data"
        /\ view.selected_periodoi # <<>> => view.step1 = "summary"
        /\ view.selected_tmimata # <<>> => view.step2 = "summary"

C10_Witness ==
    /\ Ready
    /\ view.step1 = "summary"
    /\ \E i \in RowIds :
            /\ CourseTicked(i)
            /\ Rows[i][2] \notin Range(view.selected_tmimata)
            /\ Rows[i][2] \notin Range(view.tmima_options)

(* C6.  In every row of either summary, Passed <= Participated <= Enrolled. *)
C6_CountsOrdered ==
    \A row \in SummaryRows(view.tmima_agg) \cup SummaryRows(view.mitroo_agg) :
        row[4].n <= row[3].n /\ row[3].n <= row[2].n

C6_Witness ==
    /\ \E row \in SummaryRows(view.tmima_agg) : row[4].n < row[3].n /\ row[3].n < row[2].n
    /\ \E row \in SummaryRows(view.mitroo_agg) : row[4].n < row[2].n

\* The counts of a summary row against the rows of its group.
CountsMatch(row, group) ==
    /\ row[2].n = Cardinality(group)
    /\ row[3].n = Cardinality({i \in group : HasGrade(i)})
    /\ row[4].n = Cardinality({i \in group : HasGrade(i) /\ Rows[i][4].n >= 5})

SourceGrade(i) ==
    combined_df[1].rows[i][PositionIn(combined_df[1].columns, GRADE_COLUMN)]

(* C7.  Each group has one summary row; its Enrolled is the number of rows  *)
(* of the group, its Participated the number of those with a grade, its     *)
(* Passed the number of those with a grade of 5 or more.  A source grade    *)
(* that is not a number becomes a null grade, so its row is enrolled only.  *)
C7_CountsAreGroupCounts ==
    Ready =>
        /\ \A i \in RowIds :
            /\ (SourceGrade(i).t = "str" /\ ~IsNumericText(SourceGrade(i).s))
                    => ~HasGrade(i)
            /\ SourceGrade(i).t \in {"int", "float"}
                    => HasGrade(i) /\ Rows[i][4].n = SourceGrade(i).n
        /\ \A row \in SummaryRows(view.tmima_agg) :
                CountsMatch(row, {i \in RowIds : PeriodTicked(i) /\ Rows[i][2] = row[1]})
        /\ \A row \in SummaryRows(view.mitroo_agg) :
                CountsMatch(row, {i \in RowIds : PeriodTicked(i) /\ CourseTicked(i)
                                                 /\ Rows[i][3] = row[1]})
        /\ \A i \in RowIds :
            /\ PeriodTicked(i)
                    => \E row \in SummaryRows(view.tmima_agg) : row[1] = Rows[i][2]
            /\ (PeriodTicked(i) /\ CourseTicked(i))
                    => \E row \in SummaryRows(view.mitroo_agg) : row[1] = Rows[i][3]

C7_Witness ==
    /\ Ready
    /\ \E i \in RowIds :
            /\ SourceGrade(i) = S(<<"X">>)
            /\ PeriodTicked(i) /\ CourseTicked(i)
            /\ \E row \in SummaryRows(view.mitroo_agg) :
                    row[1] = Rows[i][3] /\ row[2].n = 2 /\ row[3].n = 1 /\ row[4].n = 1

(* C8.  With every period of the canonical table ticked, the level-1        *)
(* summary is, row for row, the aggregation by course of the whole table.   *)
C8_AllPeriodsIsUnfiltered ==
    (Ready /\ \A i \in RowIds : PeriodTicked(i))
        => view.tmima_agg = Some(GroupByAgg(processed_df[1], TMIMA_COLUMN))

C8_Witness ==
    /\ Ready
    /\ \A i \in RowIds : PeriodTicked(i)
    /\ \E i, j \in RowIds : Rows[i][1] # Rows[j][1]
    /\ view.tmima_agg # None

====
